---- MODULE Spec2Model ----
(***************************************************************************)
(* The background-indexer supervisor of the cass MCP server                *)
(* (src/mcp_server/mcp_server.py, class BackgroundIndexer) together with   *)
(* the threads it spawns and the watch child processes it launches.        *)
(*                                                                         *)
(* One API caller (the server's main thread: lifespan hooks, HTTP handlers *)
(* and the signal handler all run there) issues start(), stop(),           *)
(* trigger_index() and the shutdown path one after the other; the watch    *)
(* monitors, the periodic loops and the manual index threads interleave    *)
(* with it statement by statement. Sleeps and timeouts are steps that may  *)
(* be taken at any time.                                                   *)
(*                                                                         *)
(* The second half models the tool-call path (call_tool, run_cass) and the *)
(* /health endpoint; ToolSpec is the server handling tool calls while the  *)
(* supervisor runs.                                                        *)
(***************************************************************************)
EXTENDS Naturals, FiniteSets, Sequences

\* ------------------------------------------------------------- bounds
\* Watch child processes that can be alive at once.
MaxProcs == 2
\* Watch-monitor threads that can be alive at once.
MaxMonitors == 2
\* Periodic-loop threads that can be alive at once.
MaxPeriodic == 2
\* Manual index threads (trigger_index) that can be alive at once.
MaxManual == 1
\* Index passes started over a run (caps index_count and the timestamps).
MaxIndexRuns == 2
\* Calls of start(), stop() and the shutdown path over a run.
MaxCalls == 3

None == 0
\* self._watch_process once Popen has returned: the handle of the latest child.
Handle == 1
PSlots == 1..MaxPeriodic
MSlots == 1..MaxManual

\* How subprocess.run() of an index pass can end.
Outcomes == {"zero", "nonzero", "timeout", "exception"}

\* Program counters of a watch-monitor thread (_monitor_watch_process):
\*   loop    : about to evaluate the while condition (line 150), at the
\*             thread's start or after the 10 s sleep of line 165
\*   poll    : about to poll the handle (line 152)
\*   exited  : saw the child exited, about to check the stop flag (line 158)
\*   backoff : in the 5 s sleep of line 161, then _start_watch_mode
MonPcs == {"loop", "poll", "exited", "backoff"}

VARIABLES
    is_running,        \* self._is_running
    stop_event,        \* self._stop_event (flag of the threading.Event)
    watch_process,     \* self._watch_process: None or the Popen handle
    handle_alive,      \* the handle's child has not exited (poll() is None)
    orphans,           \* live watch children the handle no longer refers to
    periodic_thread,   \* self._periodic_thread: None or the thread's slot
    last_index_time,   \* self._last_index_time: None or a logical timestamp
    index_count,       \* self._index_count
    monitors,          \* watch-monitor threads: program counter -> how many
    pthreads,          \* periodic-loop threads: slot -> [pc, tmp]
    mthreads,          \* manual index threads: slot -> [pc, tmp]
    caller,            \* the API caller's frame
    passes,            \* history: index passes [started, returned, ended]
    crashed,           \* history: "yes" once the handle's child has exited by
                       \* itself while running and not stopped, until a relaunch
                       \* ("no" if Popen succeeded, "launch_failed" if it threw)
                       \* or a stop() ("no")
    inbox,             \* tool calls the transport has received and whose
                       \* handler the event loop has not started yet
    tool_call,         \* the frame of the call_tool handler on the event loop
    tool_child         \* the child process of run_cass is alive

vars == <<is_running, stop_event, watch_process, handle_alive, orphans,
          periodic_thread, last_index_time, index_count, monitors, pthreads,
          mthreads, caller, passes, crashed, inbox, tool_call, tool_child>>

\* The state of the tool-call path (call_tool, run_cass).
toolVars == <<inbox, tool_call, tool_child>>

\* The state of the supervisor, its threads and its child processes.
indexerVars == <<is_running, stop_event, watch_process, handle_alive, orphans,
                 periodic_thread, last_index_time, index_count, monitors,
                 pthreads, mthreads, caller, passes, crashed>>

\* The fields, children and threads that make up the steady-state mode.
modeVars == <<is_running, stop_event, watch_process, handle_alive, orphans,
              periodic_thread, monitors, pthreads>>

\* ------------------------------------------------------------- helpers
Dead == [pc |-> "dead", tmp |-> 0]

NumMonitors(m) == m["loop"] + m["poll"] + m["exited"] + m["backoff"]

MonAdd(m, pc) == [m EXCEPT ![pc] = @ + 1]
MonDel(m, pc) == [m EXCEPT ![pc] = @ - 1]
MonMove(m, from, to) == MonAdd(MonDel(m, from), to)

Min(S) == CHOOSE x \in S : \A y \in S : x <= y

\* The watch children launched by the supervisor that are alive.
LiveChildren == orphans + (IF handle_alive THEN 1 ELSE 0)

FreePSlots == {s \in PSlots : pthreads[s].pc = "dead"}
FreeMSlots == {s \in MSlots : mthreads[s].pc = "dead"}

\* The process has not been ended by the shutdown path (sys.exit).
Up == caller.pc # "exited"

\* The caller's frame between calls; ret tells how the last start()/stop()
\* ended: "started", "fallback" (started, the watch launch threw),
\* "already_running", "stopped". During start(), outcome is how the initial
\* pass ended.
Returned(r) == [pc |-> "idle", op |-> "none", use_watch |-> FALSE, tmp |-> 0,
                ret |-> r, outcome |-> "none", calls |-> caller.calls]

\* No call_tool handler is on the event loop.
IdleCall == [pc |-> "idle"]

Init ==
    /\ is_running = FALSE
    /\ stop_event = FALSE
    /\ watch_process = None
    /\ handle_alive = FALSE
    /\ orphans = 0
    /\ periodic_thread = None
    /\ last_index_time = None
    /\ index_count = 0
    /\ monitors = [pc \in MonPcs |-> 0]
    /\ pthreads = [s \in PSlots |-> Dead]
    /\ mthreads = [s \in MSlots |-> Dead]
    /\ caller = [pc |-> "idle", op |-> "none", use_watch |-> FALSE, tmp |-> 0,
                 ret |-> "none", outcome |-> "none", calls |-> 0]
    /\ passes = [started |-> 0, returned |-> 0, ended |-> 0]
    /\ crashed = "no"
    /\ inbox = 0
    /\ tool_call = IdleCall
    /\ tool_child = FALSE

\* ------------------------------------------------------------- _run_index
PassPcs == {"p_run", "p_load", "p_store"}

\* subprocess.run() hands back a CompletedProcess (any exit code) or raises.
RunReturns(o) == o \in {"zero", "nonzero"}

\* Only the first except clause: other exceptions escape _run_index.
Caught_TimeoutOnly(o) == o = "timeout"

\* The except clauses of _run_index: TimeoutExpired, then Exception.
Caught(o) == o \in {"timeout", "exception"}

\* The outcomes the step of a frame at pc can have: only the subprocess has any.
OutcomesAt(pc) == IF pc = "p_run" THEN Outcomes ELSE {"zero"}

\* The frame of the thread running _run_index after one step of it.
\*   p_run   : subprocess.run() ends; on return line 204 stamps the time
\*   p_load  : line 205 reads self._index_count
\*   p_store : line 205 writes the sum back; the pass returns
\*   p_done  : _run_index has returned; p_raised: it raised to its caller
RunIndexNext(f, o) ==
    CASE f.pc = "p_run" ->
             IF RunReturns(o) THEN [pc |-> "p_load", tmp |-> 0]
             ELSE IF Caught(o) THEN [pc |-> "p_done", tmp |-> 0]
             ELSE [pc |-> "p_raised", tmp |-> 0]
      [] f.pc = "p_load" -> [pc |-> "p_store", tmp |-> index_count]
      [] f.pc = "p_store" -> [pc |-> "p_done", tmp |-> 0]

\* What one step of _run_index does to the supervisor's fields. The timestamp
\* of line 204 is the ordinal of the return among all returns so far.
RunIndexEffect(f, o) ==
    CASE f.pc = "p_run" ->
             /\ last_index_time' =
                    IF RunReturns(o) THEN passes.returned + 1 ELSE last_index_time
             /\ index_count' = index_count
             /\ passes' = IF RunReturns(o)
                          THEN [passes EXCEPT !.returned = @ + 1]
                          ELSE [passes EXCEPT !.ended = @ + 1]
      [] f.pc = "p_load" ->
             UNCHANGED <<last_index_time, index_count, passes>>
      [] f.pc = "p_store" ->
             /\ index_count' = f.tmp + 1
             /\ last_index_time' = last_index_time
             /\ passes' = [passes EXCEPT !.ended = @ + 1]

\* A new pass may start (the cap on passes over a run).
CanStartPass == passes.started < MaxIndexRuns

NewPass == [pc |-> "p_run", tmp |-> 0]

\* ------------------------------------------------------------- steady-state modes
\* _start_periodic_indexing: a new periodic thread, remembered in the handle.
start_periodic_indexing ==
    /\ FreePSlots # {}
    /\ LET s == Min(FreePSlots) IN
         /\ pthreads' = [pthreads EXCEPT ![s] = [pc |-> "loop", tmp |-> 0]]
         /\ periodic_thread' = s

\* _start_watch_mode, called with the monitor threads other than the caller of
\* it: Popen succeeds (a new child; the handle now refers to it and no longer
\* to the previous child, alive or not; a new monitor thread), or it throws and
\* the except clause falls back to periodic indexing.
start_watch_mode(others) ==
    \/ /\ LiveChildren < MaxProcs
       /\ NumMonitors(others) < MaxMonitors
       /\ watch_process' = Handle
       /\ handle_alive' = TRUE
       /\ orphans' = LiveChildren
       /\ monitors' = MonAdd(others, "loop")
       /\ crashed' = "no"
       /\ UNCHANGED <<periodic_thread, pthreads>>
    \/ /\ start_periodic_indexing
       /\ monitors' = others
       /\ crashed' = IF crashed = "yes" THEN "launch_failed" ELSE crashed
       /\ UNCHANGED <<watch_process, handle_alive, orphans>>

\* ------------------------------------------------------------- watch children
\* The handle's child exits by itself (a crash, or its answer to SIGTERM).
ChildExit ==
    /\ handle_alive
    /\ handle_alive' = FALSE
    /\ crashed' = IF is_running /\ ~stop_event THEN "yes" ELSE crashed
    /\ UNCHANGED <<is_running, stop_event, watch_process, orphans,
                   periodic_thread, last_index_time, index_count, monitors,
                   pthreads, mthreads, caller, passes>>
    /\ UNCHANGED toolVars

\* A watch child the handle no longer refers to exits by itself.
OrphanExit ==
    /\ orphans > 0
    /\ orphans' = orphans - 1
    /\ UNCHANGED <<is_running, stop_event, watch_process, handle_alive,
                   periodic_thread, last_index_time, index_count, monitors,
                   pthreads, mthreads, caller, passes, crashed>>
    /\ UNCHANGED toolVars

\* ------------------------------------------------------------- _monitor_watch_process
monFrame == <<is_running, stop_event, watch_process, handle_alive, orphans,
              periodic_thread, last_index_time, index_count, pthreads,
              mthreads, caller, passes, crashed>>

\* The while condition of line 150: leave the loop once the stop flag is set.
MonitorLoops == ~stop_event

\* Line 158: restart only if no stop has been requested.
RestartWanted == ~stop_event

\* Line 150, reached from the thread's start (past line 147, which returns
\* when there is no handle) or from the sleep of line 165.
MonitorLoop ==
    /\ Up
    /\ monitors["loop"] > 0
    /\ monitors' = IF watch_process # None /\ MonitorLoops
                   THEN MonMove(monitors, "loop", "poll")
                   ELSE MonDel(monitors, "loop")
    /\ UNCHANGED monFrame
    /\ UNCHANGED toolVars

\* Lines 152-153: poll the handle as it is now; alive: sleep 10 s (line 165).
MonitorPoll ==
    /\ Up
    /\ monitors["poll"] > 0
    /\ monitors' = IF handle_alive
                   THEN MonMove(monitors, "poll", "loop")
                   ELSE MonMove(monitors, "poll", "exited")
    /\ UNCHANGED monFrame
    /\ UNCHANGED toolVars

\* Lines 155-158: the child has exited; restart unless stopped, else return.
MonitorExited ==
    /\ Up
    /\ monitors["exited"] > 0
    /\ monitors' = IF RestartWanted
                   THEN MonMove(monitors, "exited", "backoff")
                   ELSE MonDel(monitors, "exited")
    /\ UNCHANGED monFrame
    /\ UNCHANGED toolVars

\* Lines 161-163: the backoff sleep is over; relaunch watch mode and return.
MonitorRestart ==
    /\ Up
    /\ monitors["backoff"] > 0
    /\ start_watch_mode(MonDel(monitors, "backoff"))
    /\ UNCHANGED <<is_running, stop_event, last_index_time, index_count,
                   mthreads, caller, passes>>
    /\ UNCHANGED toolVars

\* ------------------------------------------------------------- _periodic_index_loop
\* Program counters of a periodic thread: loop (line 180, then entering the
\* wait of line 182), sleeping (inside Event.wait), woken (set() has woken the
\* wait), check (line 185), p_call (line 187, the flag was clear), and those
\* of _run_index.
\*
\* Lines 180-182: the while condition, then Event.wait finds the flag set
\* (returns True at once: break) or starts to wait.
PeriodicLoop(s) ==
    /\ Up
    /\ pthreads[s].pc = "loop"
    /\ pthreads' = [pthreads EXCEPT ![s] =
                      IF stop_event THEN Dead ELSE [pc |-> "sleeping", tmp |-> 0]]
    /\ UNCHANGED <<is_running, stop_event, watch_process, handle_alive,
                   orphans, periodic_thread, last_index_time, index_count,
                   monitors, mthreads, caller, passes, crashed>>
    /\ UNCHANGED toolVars

\* Line 182: the interval elapses with no set(): wait returns False.
PeriodicTimeout(s) ==
    /\ Up
    /\ pthreads[s].pc = "sleeping"
    /\ pthreads' = [pthreads EXCEPT ![s] = [pc |-> "check", tmp |-> 0]]
    /\ UNCHANGED <<is_running, stop_event, watch_process, handle_alive,
                   orphans, periodic_thread, last_index_time, index_count,
                   monitors, mthreads, caller, passes, crashed>>
    /\ UNCHANGED toolVars

\* Lines 182-183: set() woke the waiter: wait returns True, the loop breaks.
PeriodicWoken(s) ==
    /\ Up
    /\ pthreads[s].pc = "woken"
    /\ pthreads' = [pthreads EXCEPT ![s] = Dead]
    /\ UNCHANGED <<is_running, stop_event, watch_process, handle_alive,
                   orphans, periodic_thread, last_index_time, index_count,
                   monitors, mthreads, caller, passes, crashed>>
    /\ UNCHANGED toolVars

\* Line 185: the loop reads the stop flag; if it is clear the loop goes on to
\* call _run_index (pc "p_call").
PeriodicCheck(s) ==
    /\ Up
    /\ pthreads[s].pc = "check"
    /\ pthreads' = [pthreads EXCEPT ![s] =
                      [pc |-> IF stop_event THEN "loop" ELSE "p_call", tmp |-> 0]]
    /\ UNCHANGED <<is_running, stop_event, watch_process, handle_alive,
                   orphans, periodic_thread, last_index_time, index_count,
                   monitors, mthreads, caller, passes, crashed>>
    /\ UNCHANGED toolVars

\* Line 187 up to lines 189-196: the loop calls _run_index, which launches
\* the subprocess of the pass; the flag read at line 185 is not read again.
PeriodicLaunch(s) ==
    /\ Up
    /\ pthreads[s].pc = "p_call"
    /\ CanStartPass
    /\ pthreads' = [pthreads EXCEPT ![s] = NewPass]
    /\ passes' = [passes EXCEPT !.started = @ + 1]
    /\ UNCHANGED <<is_running, stop_event, watch_process, handle_alive,
                   orphans, periodic_thread, last_index_time, index_count,
                   monitors, mthreads, caller, crashed>>
    /\ UNCHANGED toolVars

\* Line 187: one step of the pass the loop is running.
PeriodicPass(s) ==
    /\ Up
    /\ pthreads[s].pc \in PassPcs
    /\ \E o \in OutcomesAt(pthreads[s].pc) :
         /\ RunIndexEffect(pthreads[s], o)
         /\ LET g == RunIndexNext(pthreads[s], o) IN
              pthreads' = [pthreads EXCEPT ![s] =
                             CASE g.pc = "p_done" -> [pc |-> "loop", tmp |-> 0]
                               [] g.pc = "p_raised" -> Dead
                               [] OTHER -> g]
    /\ UNCHANGED <<is_running, stop_event, watch_process, handle_alive,
                   orphans, periodic_thread, monitors, mthreads, caller,
                   crashed>>
    /\ UNCHANGED toolVars

\* ------------------------------------------------------------- trigger_index
\* The command line of an index pass (lines 192-194).
IndexCmd(full) == IF full THEN <<"index", "--full">> ELSE <<"index">>

\* trigger_index keeping its thread in self._periodic_thread.
trigger_index_KeepsHandle(full) ==
    /\ caller.pc = "idle"
    /\ FreePSlots # {}
    /\ CanStartPass
    /\ IndexCmd(full)[1] = "index"
    /\ pthreads' = [pthreads EXCEPT ![Min(FreePSlots)] = NewPass]
    /\ periodic_thread' = Min(FreePSlots)
    /\ passes' = [passes EXCEPT !.started = @ + 1]
    /\ UNCHANGED <<is_running, stop_event, watch_process, handle_alive,
                   orphans, last_index_time, index_count, monitors, mthreads,
                   caller, crashed>>
    /\ UNCHANGED toolVars

\* trigger_index doing nothing while a periodic pass is in flight.
trigger_index_Coalesced(full) ==
    /\ caller.pc = "idle"
    /\ FreeMSlots # {}
    /\ CanStartPass
    /\ \A s \in PSlots : pthreads[s].pc \notin PassPcs
    /\ IndexCmd(full)[1] = "index"
    /\ mthreads' = [mthreads EXCEPT ![Min(FreeMSlots)] = NewPass]
    /\ passes' = [passes EXCEPT !.started = @ + 1]
    /\ UNCHANGED <<is_running, stop_event, watch_process, handle_alive,
                   orphans, periodic_thread, last_index_time, index_count,
                   monitors, pthreads, caller, crashed>>
    /\ UNCHANGED toolVars

\* trigger_index(full): a new thread running _run_index(full); nothing else.
trigger_index(full) ==
    /\ caller.pc = "idle"
    /\ FreeMSlots # {}
    /\ CanStartPass
    /\ IndexCmd(full)[1] = "index"
    /\ mthreads' = [mthreads EXCEPT ![Min(FreeMSlots)] = NewPass]
    /\ passes' = [passes EXCEPT !.started = @ + 1]
    /\ UNCHANGED <<is_running, stop_event, watch_process, handle_alive,
                   orphans, periodic_thread, last_index_time, index_count,
                   monitors, pthreads, caller, crashed>>
    /\ UNCHANGED toolVars

\* One step of a manual pass.
ManualPass(s) ==
    /\ Up
    /\ mthreads[s].pc \in PassPcs
    /\ \E o \in OutcomesAt(mthreads[s].pc) :
         /\ RunIndexEffect(mthreads[s], o)
         /\ LET g == RunIndexNext(mthreads[s], o) IN
              mthreads' = [mthreads EXCEPT ![s] =
                             IF g.pc \in {"p_done", "p_raised"} THEN Dead ELSE g]
    /\ UNCHANGED <<is_running, stop_event, watch_process, handle_alive,
                   orphans, periodic_thread, monitors, pthreads, caller,
                   crashed>>
    /\ UNCHANGED toolVars

\* ------------------------------------------------------------- start
\* The guard of line 98 left out.
AlreadyRunning_Unguarded == FALSE

\* Line 98: the supervisor is already running.
AlreadyRunning == is_running

\* start(use_watch_mode, initial_index), lines 98-108.
start(use_watch_mode, initial_index) ==
    /\ caller.pc = "idle"
    /\ caller.calls < MaxCalls
    /\ IF AlreadyRunning
       THEN /\ caller' = [Returned("already_running") EXCEPT !.calls = @ + 1]
            /\ UNCHANGED <<is_running, stop_event, passes>>
       ELSE /\ is_running' = TRUE
            /\ stop_event' = FALSE
            /\ initial_index => CanStartPass
            /\ caller' = [pc |-> IF initial_index THEN "p_run" ELSE "start_mode",
                          op |-> "start", use_watch |-> use_watch_mode,
                          tmp |-> 0, ret |-> "none", outcome |-> "none",
                          calls |-> caller.calls + 1]
            /\ passes' = IF initial_index
                         THEN [passes EXCEPT !.started = @ + 1] ELSE passes
    /\ UNCHANGED <<watch_process, handle_alive, orphans, periodic_thread,
                   last_index_time, index_count, monitors, pthreads, mthreads,
                   crashed>>
    /\ UNCHANGED toolVars

\* Line 108: one step of the initial pass, run on the caller's thread.
StartInitialIndex ==
    /\ caller.pc \in PassPcs
    /\ \E o \in OutcomesAt(caller.pc) :
         /\ RunIndexEffect(caller, o)
         /\ LET g == RunIndexNext(caller, o) IN
              caller' = [caller EXCEPT
                           !.pc = CASE g.pc = "p_done" -> "start_mode"
                                    [] g.pc = "p_raised" -> "raised"
                                    [] OTHER -> g.pc,
                           !.tmp = g.tmp,
                           !.outcome = IF caller.pc = "p_run" THEN o ELSE @]
    /\ UNCHANGED <<is_running, stop_event, watch_process, handle_alive,
                   orphans, periodic_thread, monitors, pthreads, mthreads,
                   crashed>>
    /\ UNCHANGED toolVars

\* Lines 110-115: enter the steady-state mode and return.
StartMode ==
    /\ caller.pc = "start_mode"
    /\ IF caller.use_watch
       THEN start_watch_mode(monitors)
       ELSE /\ start_periodic_indexing
            /\ UNCHANGED <<watch_process, handle_alive, orphans, monitors,
                           crashed>>
    /\ caller' = Returned(IF caller.use_watch /\ monitors' = monitors
                          THEN "fallback" ELSE "started")
    /\ UNCHANGED <<is_running, stop_event, last_index_time, index_count,
                   mthreads, passes>>
    /\ UNCHANGED toolVars

\* ------------------------------------------------------------- stop, shutdown
\* stop() returns: to the caller, or on to the end of the shutdown path.
StopReturns == IF caller.op = "shutdown"
               THEN [caller EXCEPT !.pc = "sd_exit"]
               ELSE Returned("stopped")

\* Lines 229-230: set the stop flag (waking every waiter of the event) and
\* clear the running flag. op is "stop" for a call of stop(), "shutdown" for
\* the signal handler and the lifespan shutdown (stop_background_indexer).
StopSet(op) ==
    /\ caller.pc = "idle"
    /\ caller.calls < MaxCalls
    /\ stop_event' = TRUE
    /\ is_running' = FALSE
    /\ pthreads' = [s \in PSlots |->
                      IF pthreads[s].pc = "sleeping"
                      THEN [pc |-> "woken", tmp |-> 0] ELSE pthreads[s]]
    /\ crashed' = "no"
    /\ caller' = [pc |-> "stop_check", op |-> op, use_watch |-> FALSE,
                  tmp |-> 0, ret |-> "none", outcome |-> "none",
                  calls |-> caller.calls + 1]
    /\ UNCHANGED <<watch_process, handle_alive, orphans, periodic_thread,
                   last_index_time, index_count, monitors, mthreads, passes>>
    /\ UNCHANGED toolVars

\* Lines 233-235: if the handle's child is alive, send it SIGTERM (the child
\* may then exit: ChildExit).
StopCheck ==
    /\ caller.pc = "stop_check"
    /\ caller' = IF watch_process # None /\ handle_alive
                 THEN [caller EXCEPT !.pc = "stop_wait"]
                 ELSE StopReturns
    /\ UNCHANGED <<is_running, stop_event, watch_process, handle_alive,
                   orphans, periodic_thread, last_index_time, index_count,
                   monitors, pthreads, mthreads, passes, crashed>>
    /\ UNCHANGED toolVars

\* Lines 236-238: wait(timeout=5) on the handle as it is now: its child has
\* exited, or the wait times out.
StopWait ==
    /\ caller.pc = "stop_wait"
    /\ caller' = IF handle_alive
                 THEN [caller EXCEPT !.pc = "stop_kill"]
                 ELSE StopReturns
    /\ UNCHANGED <<is_running, stop_event, watch_process, handle_alive,
                   orphans, periodic_thread, last_index_time, index_count,
                   monitors, pthreads, mthreads, passes, crashed>>
    /\ UNCHANGED toolVars

\* Line 239: kill() the child of the handle as it is now.
StopKill ==
    /\ caller.pc = "stop_kill"
    /\ handle_alive' = FALSE
    /\ caller' = StopReturns
    /\ UNCHANGED <<is_running, stop_event, watch_process, orphans,
                   periodic_thread, last_index_time, index_count, monitors,
                   pthreads, mthreads, passes, crashed>>
    /\ UNCHANGED toolVars

\* Lines 757 and 764: the shutdown path ends the process and its daemon threads.
Exit ==
    /\ caller.pc = "sd_exit"
    /\ caller' = [caller EXCEPT !.pc = "exited"]
    /\ UNCHANGED <<is_running, stop_event, watch_process, handle_alive,
                   orphans, periodic_thread, last_index_time, index_count,
                   monitors, pthreads, mthreads, passes, crashed>>
    /\ UNCHANGED toolVars

\* ------------------------------------------------------------- get_status
\* Lines 245-252.
watch_running == watch_process # None /\ handle_alive
periodic_running == periodic_thread # None /\ pthreads[periodic_thread].pc # "dead"

\* Lines 254-261 (watch_pid: the pid of the handle; periodic: the interval is
\* reported).
get_status ==
    [is_running |-> is_running,
     mode |-> IF watch_running THEN "watch"
              ELSE IF periodic_running THEN "periodic" ELSE "stopped",
     watch_pid |-> IF watch_running THEN watch_process ELSE None,
     last_index_time |-> last_index_time,
     index_count |-> index_count,
     periodic |-> periodic_running]

\* ------------------------------------------------------------- specification
Next ==
    \/ ChildExit
    \/ OrphanExit
    \/ MonitorLoop
    \/ MonitorPoll
    \/ MonitorExited
    \/ MonitorRestart
    \/ \E s \in PSlots : PeriodicLoop(s)
    \/ \E s \in PSlots : PeriodicTimeout(s)
    \/ \E s \in PSlots : PeriodicWoken(s)
    \/ \E s \in PSlots : PeriodicCheck(s)
    \/ \E s \in PSlots : PeriodicLaunch(s)
    \/ \E s \in PSlots : PeriodicPass(s)
    \/ \E full \in BOOLEAN : trigger_index(full)
    \/ \E s \in MSlots : ManualPass(s)
    \/ \E w \in BOOLEAN, i \in BOOLEAN : start(w, i)
    \/ StartInitialIndex
    \/ StartMode
    \/ \E op \in {"stop", "shutdown"} : StopSet(op)
    \/ StopCheck
    \/ StopWait
    \/ StopKill
    \/ Exit

Spec == Init /\ [][Next]_vars

\* Threads are scheduled: a monitor that can take its next step (its sleep is
\* over, its poll returns) eventually takes it, and a start() under way runs on
\* to its return (its pass ends, by the 300 s timeout at the latest).
FairSpec ==
    /\ Spec
    /\ WF_vars(StartInitialIndex)
    /\ WF_vars(StartMode)
    /\ WF_vars(MonitorLoop)
    /\ WF_vars(MonitorPoll)
    /\ WF_vars(MonitorExited)
    /\ WF_vars(MonitorRestart)

\* ------------------------------------------------------------- claims
\* stop() (or the shutdown path) has returned and no start() has followed:
\* only stop() sets the stop flag and only start() clears it.
StopReturned ==
    /\ caller.pc \in {"idle", "sd_exit", "exited"}
    /\ stop_event
    /\ ~is_running

\* C1: after stop() has returned, and until a later start(), no watch child
\* launched by the supervisor is alive; the same after the shutdown path.
C1_NoLiveWatchChildAfterStop == StopReturned => LiveChildren = 0

\* C2: in every reachable state at most one watch child launched by the
\* supervisor is alive, and it is the one the watch handle refers to.
C2_AtMostOneWatchChild == orphans = 0

\* C3: start() called while the supervisor is running returns at once: no
\* watch child, monitor, periodic loop or index pass is added and every field
\* of the supervisor keeps its value.
C3_StartWhileRunningIsNoOp ==
    [][(is_running /\ \E w \in BOOLEAN, i \in BOOLEAN : start(w, i)) =>
          /\ caller'.pc = "idle"
          /\ UNCHANGED <<is_running, stop_event, watch_process, handle_alive,
                         orphans, periodic_thread, last_index_time,
                         index_count, monitors, pthreads, mthreads, passes>>]_vars

\* A start() has just returned as a no-op on a running supervisor.
C3_Witness == caller.ret = "already_running" /\ is_running

\* C4: once the handle's watch child has exited by itself while the supervisor
\* was running and not stopped, get_status() eventually reports mode "watch"
\* again, unless stop() is called or the relaunch throws; after every crash.
C4_CrashLeadsToWatchAgain ==
    (crashed = "yes") ~>
        (get_status.mode = "watch" \/ stop_event \/ crashed = "launch_failed")

\* C5: after stop() has returned, and before any later start(), get_status()
\* reports is_running = false and mode = "stopped".
C5_StatusStoppedAfterStop ==
    StopReturned => (~get_status.is_running /\ get_status.mode = "stopped")

\* C6: when the watch launch of start() throws, start() returns normally with
\* a periodic loop running and neither a watch child nor a watch monitor.
C6_LaunchFailureFallsBackToPeriodic ==
    caller.ret = "fallback" =>
        /\ periodic_running
        /\ LiveChildren = 0
        /\ NumMonitors(monitors) = 0

\* C7: a live watch child and a running periodic loop are never both present.
C7_OneSteadyStateMode ==
    ~(LiveChildren > 0 /\ \E s \in PSlots : pthreads[s].pc # "dead")

\* C8: trigger_index() and the pass it spawns leave the steady-state mode
\* alone: running flag, stop flag, watch handle, watch children, monitors and
\* periodic loop are unchanged, and so is the mode get_status() reports.
C8_TriggerKeepsMode ==
    [][((\E full \in BOOLEAN : trigger_index(full)) \/ (\E s \in MSlots : ManualPass(s)))
          => /\ UNCHANGED modeVars
             /\ get_status'.mode = get_status.mode]_vars

\* A manual pass is past its subprocess while the supervisor is in watch mode.
C8_Witness ==
    /\ \E s \in MSlots : mthreads[s].pc = "p_store"
    /\ is_running
    /\ get_status.mode = "watch"

\* C9: no index pass, however it ends, raises into start(), trigger_index() or
\* stop(): start() goes on to enter its steady-state mode after a failed
\* initial pass, and a periodic loop outlives every pass it runs.
C9_IndexFailureNeverPropagates ==
    /\ [](caller.pc # "raised")
    /\ [](caller.outcome \in {"nonzero", "timeout", "exception"} =>
              caller.pc \in {"p_load", "p_store", "start_mode"})
    /\ [][\A s \in PSlots : PeriodicPass(s) => pthreads'[s].pc # "dead"]_vars

\* The initial pass of a start() raised an exception and start() is about to
\* enter its steady-state mode.
C9_Witness == caller.pc = "start_mode" /\ caller.outcome = "exception"

\* C10: every index pass that ends (zero exit, non-zero exit, timeout or
\* exception) increases index_count by exactly one.
C10_EveryPassCounted ==
    [][passes'.ended = passes.ended + 1 => index_count' = index_count + 1]_vars

\* A step in which the subprocess of an index pass ends with outcome o: the
\* initial pass of start() (whose outcome the caller's frame records) or the
\* pass of a periodic or manual thread.
SubprocessEnds(o) ==
    \/ /\ caller.pc = "p_run"
       /\ StartInitialIndex
       /\ caller'.outcome = o
    \/ \E s \in PSlots :
         /\ pthreads[s].pc = "p_run"
         /\ pthreads'[s] = (IF RunIndexNext(pthreads[s], o).pc = "p_done"
                            THEN [pc |-> "loop", tmp |-> 0]
                            ELSE RunIndexNext(pthreads[s], o))
         /\ RunIndexEffect(pthreads[s], o)
    \/ \E s \in MSlots :
         /\ mthreads[s].pc = "p_run"
         /\ mthreads'[s] = (IF RunIndexNext(mthreads[s], o).pc = "p_done"
                            THEN Dead ELSE RunIndexNext(mthreads[s], o))
         /\ RunIndexEffect(mthreads[s], o)

\* C11: last_index_time changes only when an index pass finishes with exit
\* code zero; a pass ending with a non-zero exit, a timeout or an exception
\* leaves it unchanged.
C11_LastIndexTimeOnlyOnSuccess ==
    [][/\ last_index_time' # last_index_time => SubprocessEnds("zero")
       /\ \A o \in {"nonzero", "timeout", "exception"} :
            SubprocessEnds(o) => last_index_time' = last_index_time]_vars

\* ------------------------------------------------------------- HTTP surface
\* The module-level background_indexer (line 265): it holds the supervisor
\* from start_background_indexer (line 742) until stop_background_indexer has
\* reset it (line 757), which the model does in Exit.
background_indexer == caller.pc # "exited"

\* health_check taking the branch of an unset background_indexer always.
health_check_Uninitialised ==
    [status |-> 200,
     body |-> [status |-> "healthy", server |-> "cass-mcp-server",
               background_indexer |-> [is_running |-> FALSE]]]

\* GET /health (lines 673-680): JSONResponse answers with status 200.
health_check ==
    [status |-> 200,
     body |-> [status |-> "healthy", server |-> "cass-mcp-server",
               background_indexer |->
                   IF background_indexer THEN get_status
                   ELSE [is_running |-> FALSE]]]

\* C12: in every state where the supervisor has been started and no index
\* pass has yet completed (no subprocess of a pass has returned), GET /health
\* answers with status 200, background_indexer.is_running = true and
\* last_index_time = null.
C12_HealthBeforeFirstIndex ==
    (is_running /\ passes.returned = 0) =>
        /\ health_check.status = 200
        /\ health_check.body.background_indexer.is_running = TRUE
        /\ health_check.body.background_indexer.last_index_time = None

\* The supervisor is running, a pass is in flight and none has returned yet;
\* the caller is free to serve the request.
C12_Witness ==
    /\ is_running
    /\ caller.pc = "idle"
    /\ passes.started > 0
    /\ passes.returned = 0
    /\ passes.ended = 0

\* ============================================================= tool calls
\* The tool-call path: call_tool (lines 550-645) maps a tool name and an
\* argument map to an argument list, run_cass (lines 271-302) runs the binary
\* and normalises what came back, call_tool wraps the result as one text
\* payload. Texts the program looks into (stdout, stderr, numerals) are
\* sequences of characters.

\* ------------------------------------------------------------- bounds
\* Tool calls waiting for the event loop at once.
MaxToolCalls == 2
\* Length of a child's stdout.
MaxLen == 3
\* Length of a child's stderr.
MaxErrLen == 2
\* Largest exit code of a child.
MaxExit == 2
\* Largest limit argument a client sends.
MaxLimit == 250

\* The clamp of cass_search's limit (line 564).
LimitCap == 100
\* run_cass's default timeout (line 271), cass_export's (line 621) and
\* cass_index's (line 630), in seconds.
DefaultTimeout == 30
ExportTimeout == 60
IndexTimeout == 300
\* cass_timeline's default number of days (line 588).
DefaultDays == 7

\* ------------------------------------------------------------- texts
\* The characters a child writes to stdout (blank, newline, a digit,
\* brackets, a letter) and to stderr (blank, a letter).
Chars == {" ", "\n", "7", "[", "]", "x"}
ErrChars == {" ", "x"}
Whitespace == {" ", "\n"}

\* All texts over an alphabet up to a length.
Texts(alphabet, n) == UNION {[1..k -> alphabet] : k \in 0..n}

\* Stdouts that hold a JSON object, a string or a literal (cass --json prints
\* objects): with the key "error" and with another key, with and without
\* whitespace, and one cut short.
ObjectStdouts ==
    {<<"{", "\"", "e", "r", "r", "o", "r", "\"", ":", "t", "r", "u", "e", "}">>,
     <<"{", " ", "\"", "e", "r", "r", "o", "r", "\"", " ", ":", "\n", "t", "r", "u", "e", " ", "}", "\n">>,
     <<"{", "\"", "e", "r", "r", "o", "r", "\"", ":", "7", "}">>,
     <<"{", "\"", "x", "\"", ":", "t", "r", "u", "e", "}">>,
     <<"{", "\"", "e", "r", "r", "o", "r", "\"", ":", "t", "r", "u", "e">>,
     <<"{", "}">>,
     <<"t", "r", "u", "e">>,
     <<"\"", "x", "\"">>}

\* What a child can write to stdout and to stderr.
Stdouts == Texts(Chars, MaxLen) \cup ObjectStdouts
Stderrs == Texts(ErrChars, MaxErrLen)

\* str.strip(): drop the whitespace at both ends.
RECURSIVE LStrip(_)
LStrip(s) == IF s # <<>> /\ Head(s) \in Whitespace THEN LStrip(Tail(s)) ELSE s
RECURSIVE RStrip(_)
RStrip(s) == IF s # <<>> /\ s[Len(s)] \in Whitespace
             THEN RStrip(SubSeq(s, 1, Len(s) - 1)) ELSE s
strip(s) == RStrip(LStrip(s))

\* str(n) of a natural number: its decimal numeral.
Digits == <<"0", "1", "2", "3", "4", "5", "6", "7", "8", "9">>
RECURSIVE str(_)
str(n) == IF n < 10 THEN <<Digits[n + 1]>>
          ELSE str(n \div 10) \o <<Digits[(n % 10) + 1]>>

\* ------------------------------------------------------------- json.loads
\* JSON values: a number, an array of values, a string (its characters), the
\* literal true, or an object (its key and the value under it; no key and no
\* value for the empty object).
JNum(n) == [t |-> "num", n |-> n, s |-> <<>>, items |-> <<>>]
JArr(items) == [t |-> "arr", n |-> 0, s |-> <<>>, items |-> items]
JStr(cs) == [t |-> "str", n |-> 0, s |-> cs, items |-> <<>>]
JTrue == [t |-> "true", n |-> 0, s |-> <<>>, items |-> <<>>]
JObj(key, items) == [t |-> "obj", n |-> 0, s |-> key, items |-> items]

Parsed(v, next) == [ok |-> TRUE, val |-> v, next |-> next]
ParseError == [ok |-> FALSE, val |-> JNum(0), next |-> 0]

\* The scanner skips whitespace from position i on.
RECURSIVE SkipWs(_, _)
SkipWs(s, i) == IF i <= Len(s) /\ s[i] \in Whitespace THEN SkipWs(s, i + 1) ELSE i

\* A number from position i on: the digits read so far are worth acc.
RECURSIVE ScanNumber(_, _, _)
ScanNumber(s, i, acc) ==
    IF i <= Len(s) /\ s[i] = "7"
    THEN ScanNumber(s, i + 1, acc * 10 + 7)
    ELSE Parsed(JNum(acc), i)

\* A string from position i on, the opening quote read: the characters up to
\* the closing quote; a control character inside it is an error (the texts
\* have no backslash, so no escapes).
RECURSIVE ScanString(_, _, _)
ScanString(s, i, acc) ==
    IF i > Len(s) THEN ParseError
    ELSE IF s[i] = "\"" THEN Parsed(JStr(acc), i + 1)
    ELSE IF s[i] = "\n" THEN ParseError
    ELSE ScanString(s, i + 1, Append(acc, s[i]))

\* One value from position i on; the elements of an array and the members of
\* an object are separated by commas, which the texts lack, so an array holds
\* at most one element and an object at most one member.
RECURSIVE ScanValue(_, _)
ScanValue(s, i) ==
    IF i > Len(s) THEN ParseError
    ELSE IF s[i] = "7" THEN ScanNumber(s, i, 0)
    ELSE IF s[i] = "\"" THEN ScanString(s, i + 1, <<>>)
    ELSE IF s[i] = "t"
         THEN IF i + 3 <= Len(s) /\ SubSeq(s, i, i + 3) = <<"t", "r", "u", "e">>
              THEN Parsed(JTrue, i + 4)
              ELSE ParseError
    ELSE IF s[i] = "{"
         THEN LET j == SkipWs(s, i + 1) IN
              IF j <= Len(s) /\ s[j] = "}" THEN Parsed(JObj(<<>>, <<>>), j + 1)
              ELSE IF j > Len(s) \/ s[j] # "\"" THEN ParseError
              ELSE LET key == ScanString(s, j + 1, <<>>) IN
                   IF ~key.ok THEN ParseError
                   ELSE LET c == SkipWs(s, key.next) IN
                        IF c > Len(s) \/ s[c] # ":" THEN ParseError
                        ELSE LET r == ScanValue(s, SkipWs(s, c + 1)) IN
                             IF ~r.ok THEN ParseError
                             ELSE LET e == SkipWs(s, r.next) IN
                                  IF e <= Len(s) /\ s[e] = "}"
                                  THEN Parsed(JObj(key.val.s, <<r.val>>), e + 1)
                                  ELSE ParseError
    ELSE IF s[i] = "["
         THEN LET j == SkipWs(s, i + 1) IN
              IF j <= Len(s) /\ s[j] = "]" THEN Parsed(JArr(<<>>), j + 1)
              ELSE LET r == ScanValue(s, j) IN
                   IF ~r.ok THEN ParseError
                   ELSE LET k == SkipWs(s, r.next) IN
                        IF k <= Len(s) /\ s[k] = "]"
                        THEN Parsed(JArr(<<r.val>>), k + 1)
                        ELSE ParseError
    ELSE ParseError

\* json.loads(s): whitespace, one value, whitespace, the end of the text;
\* anything else raises JSONDecodeError (ok = FALSE).
json_loads(s) ==
    LET r == ScanValue(s, SkipWs(s, 1)) IN
    IF r.ok /\ SkipWs(s, r.next) > Len(s) THEN r ELSE ParseError

\* ------------------------------------------------------------- call_tool
\* The tool catalog (list_tools, lines 305-547; the branches of call_tool).
Catalog == {"cass_search", "cass_stats", "cass_capabilities", "cass_timeline",
            "cass_context", "cass_view", "cass_expand", "cass_export",
            "cass_health", "cass_index"}

\* An entry of the argument map: given or not, and its value when given
\* (dflt, of the parameter's type, stands in when it is not).
Opt(S, dflt) == {[given |-> FALSE, v |-> dflt]} \cup {[given |-> TRUE, v |-> x] : x \in S}

\* arguments.get(k) as a condition: the key is there and its value is truthy.
TruthyStr(x) == x.given /\ x.v # ""
TruthyNum(x) == x.given /\ x.v # 0
TruthyBool(x) == x.given /\ x.v

\* The limits a client sends.
Limits == {0, 1, LimitCap - 1, LimitCap, LimitCap + 1, MaxLimit}

\* The argument maps of each tool: every parameter absent, falsy or set.
ArgumentsOf(name) ==
    CASE name = "cass_search" ->
             [query : Opt({"auth error"}, ""), agent : Opt({"codex"}, ""),
              workspace : Opt({"/w"}, ""), limit : Opt(Limits, 0),
              days : Opt({0, 3}, 0), today : Opt(BOOLEAN, FALSE),
              highlight : Opt({TRUE}, FALSE)]
      [] name = "cass_timeline" ->
             [today : Opt(BOOLEAN, FALSE), days : Opt({0, 3}, 0),
              group_by : Opt({"day"}, ""), agent : Opt({"codex"}, "")]
      [] name = "cass_context" ->
             [path : Opt({"/p"}, ""), limit : Opt({0, LimitCap + 1}, 0)]
      [] name = "cass_view" ->
             [path : Opt({"/p"}, ""), line : Opt({0, 12}, 0),
              context : Opt({5}, 0)]
      [] name = "cass_expand" ->
             [path : Opt({"/p"}, ""), line : Opt({12}, 0),
              context : Opt({5}, 0)]
      [] name = "cass_export" ->
             [path : Opt({"/p"}, ""), format : Opt({"json"}, "")]
      [] name = "cass_index" -> [full : Opt(BOOLEAN, FALSE)]
      [] OTHER -> {<<>>}

\* The tool calls a client sends: the catalog's names and one outside it.
ToolNames == Catalog \cup {"cass_unknown"}
Requests == UNION {{[name |-> n, arguments |-> a] : a \in ArgumentsOf(n)} : n \in ToolNames}

\* A command-line token: a word, or the numeral str() made of a number.
Word(w) == [word |-> w, num |-> <<>>]
Numeral(n) == [word |-> "", num |-> str(n)]

\* cass_search forwarding the limit as supplied.
SearchLimit_Unclamped(limit) == Numeral(limit)

\* Line 564: str(min(arguments["limit"], 100)).
SearchLimit(limit) == Numeral(Min({limit, LimitCap}))

\* Lines 565-568 of cass_search: two independent tests.
SearchDays(a) ==
    (IF TruthyNum(a.days) THEN <<Word("--days"), Numeral(a.days.v)>> ELSE <<>>)
    \o (IF TruthyBool(a.today) THEN <<Word("--today")>> ELSE <<>>)

\* Lines 583-588 of cass_timeline: today, else days, else the default.
TimelineDays(a) ==
    IF TruthyBool(a.today) THEN <<Word("--today")>>
    ELSE IF TruthyNum(a.days) THEN <<Word("--days"), Numeral(a.days.v)>>
    ELSE <<Word("--days"), Numeral(DefaultDays)>>

\* The parameters a branch subscripts (arguments["k"]), in the order it
\* evaluates them: a missing one raises KeyError.
Subscripted(name) ==
    CASE name = "cass_search" -> <<"query">>
      [] name \in {"cass_context", "cass_view", "cass_export"} -> <<"path">>
      [] name = "cass_expand" -> <<"path", "line">>
      [] OTHER -> <<>>

\* The first subscripted parameter that is missing ("" if none is).
KeyError(name, a) ==
    LET ks == Subscripted(name)
        missing == {i \in 1..Len(ks) : ~a[ks[i]].given} IN
    IF missing = {} THEN "" ELSE ks[Min(missing)]

\* The argument list a branch of call_tool builds (lines 556-630).
ToolArgs(name, a) ==
    CASE name = "cass_search" ->
             <<Word("search"), Word(a.query.v), Word("--json")>>
             \o (IF TruthyStr(a.agent) THEN <<Word("--agent"), Word(a.agent.v)>> ELSE <<>>)
             \o (IF TruthyStr(a.workspace)
                 THEN <<Word("--workspace"), Word(a.workspace.v)>> ELSE <<>>)
             \o (IF TruthyNum(a.limit)
                 THEN <<Word("--limit"), SearchLimit(a.limit.v)>> ELSE <<>>)
             \o SearchDays(a)
             \o (IF TruthyBool(a.highlight) THEN <<Word("--highlight")>> ELSE <<>>)
      [] name = "cass_stats" -> <<Word("stats"), Word("--json")>>
      [] name = "cass_capabilities" -> <<Word("capabilities"), Word("--json")>>
      [] name = "cass_timeline" ->
             <<Word("timeline"), Word("--json")>>
             \o TimelineDays(a)
             \o (IF TruthyStr(a.group_by)
                 THEN <<Word("--group-by"), Word(a.group_by.v)>> ELSE <<>>)
             \o (IF TruthyStr(a.agent) THEN <<Word("--agent"), Word(a.agent.v)>> ELSE <<>>)
      [] name = "cass_context" ->
             <<Word("context"), Word(a.path.v), Word("--json")>>
             \o (IF TruthyNum(a.limit)
                 THEN <<Word("--limit"), Numeral(a.limit.v)>> ELSE <<>>)
      [] name = "cass_view" ->
             <<Word("view"), Word(a.path.v), Word("--json")>>
             \o (IF TruthyNum(a.line) THEN <<Word("-n"), Numeral(a.line.v)>> ELSE <<>>)
             \o (IF TruthyNum(a.context)
                 THEN <<Word("-C"), Numeral(a.context.v)>> ELSE <<>>)
      [] name = "cass_expand" ->
             <<Word("expand"), Word(a.path.v), Word("-n"), Numeral(a.line.v),
               Word("--json")>>
             \o (IF TruthyNum(a.context)
                 THEN <<Word("-C"), Numeral(a.context.v)>> ELSE <<>>)
      [] name = "cass_export" ->
             <<Word("export"), Word(a.path.v), Word("--format"),
               Word(IF a.format.given THEN a.format.v ELSE "markdown")>>
      [] name = "cass_health" -> <<Word("health"), Word("--json")>>
      [] name = "cass_index" ->
             <<Word("index")>>
             \o (IF TruthyBool(a.full) THEN <<Word("--full")>> ELSE <<>>)

\* The timeout a branch hands to run_cass.
ToolTimeout(name) ==
    CASE name = "cass_export" -> ExportTimeout
      [] name = "cass_index" -> IndexTimeout
      [] OTHER -> DefaultTimeout

\* ------------------------------------------------------------- run_cass
\* How the child of run_cass ended, as subprocess.run reports it: kind is
\* "exited" (a CompletedProcess with returncode, stdout, stderr), "timeout"
\* (TimeoutExpired, after subprocess.run has killed and reaped the child) or
\* "oserror" (Popen raised: binary missing or not executable; message is
\* str(e)).
Exited(code, stdout, stderr) ==
    [kind |-> "exited", code |-> code, stdout |-> stdout, stderr |-> stderr,
     message |-> "", timeout |-> 0]
TimedOut(timeout) ==
    [kind |-> "timeout", code |-> 0, stdout |-> <<>>, stderr |-> <<>>,
     message |-> "", timeout |-> timeout]
OSError(message) ==
    [kind |-> "oserror", code |-> 0, stdout |-> <<>>, stderr |-> <<>>,
     message |-> message, timeout |-> 0]

OSErrors == {"No such file or directory", "Permission denied"}

\* The failure of a non-zero exit with the child's texts left as they came.
ExitFailure_Untrimmed(code, stdout, stderr) ==
    [error |-> TRUE, exit_code |-> code, stderr |-> stderr, stdout |-> stdout]

\* Lines 285-291: the failure of a non-zero exit.
ExitFailure(code, stdout, stderr) ==
    [error |-> TRUE, exit_code |-> code, stderr |-> strip(stderr),
     stdout |-> strip(stdout)]

\* The parse error of json.loads handed on as a failure.
ParsedOutput_Surfaced(stdout) ==
    LET r == json_loads(stdout) IN
    IF r.ok THEN r.val ELSE [error |-> TRUE, message |-> "JSONDecodeError"]

\* Lines 293-297: the parsed stdout, or the trimmed stdout as raw text.
ParsedOutput(stdout) ==
    LET r == json_loads(stdout) IN
    IF r.ok THEN r.val ELSE [output |-> strip(stdout)]

\* Line 300: f"Command timed out after {timeout}s".
TimeoutMessage(timeout) == [text |-> "Command timed out after", seconds |-> str(timeout)]

\* Only the first except clause of run_cass.
RunCassCaught_TimeoutOnly(kind) == kind = "timeout"

\* The except clauses of run_cass (lines 299-302): TimeoutExpired, Exception.
RunCassCaught(kind) == kind \in {"timeout", "oserror"}

\* run_cass as seen by its caller: it returns value, or raises (raised).
run_cass(out) ==
    CASE out.kind = "exited" ->
             [raised |-> FALSE,
              value |-> IF out.code # 0
                        THEN ExitFailure(out.code, out.stdout, out.stderr)
                        ELSE ParsedOutput(out.stdout)]
      [] out.kind = "timeout" ->
             [raised |-> ~RunCassCaught("timeout"),
              value |-> [error |-> TRUE, message |-> TimeoutMessage(out.timeout)]]
      [] out.kind = "oserror" ->
             [raised |-> ~RunCassCaught("oserror"),
              value |-> [error |-> TRUE, message |-> out.message]]

\* ------------------------------------------------------------- the handler
\* call_tool without its except clause.
DispatchCaught_None(e) == FALSE

\* Line 640: except Exception catches what the dispatch raised (a KeyError
\* of a missing parameter, an exception out of run_cass).
DispatchCaught(e) == e \in {"KeyError", "run_cass"}

\* json.dumps(value, indent=...) as the text of a payload: the value encoded
\* and the indentation used.
TextContent(value, indent) ==
    [type |-> "text", text |-> [value |-> value, indent |-> indent]]

\* Lines 635-638: the payload of a result.
ResultPayload(result) == <<TextContent(result, 2)>>

\* Lines 640-645: the payload of an exception caught during dispatch.
ErrorPayload(message) == <<TextContent([error |-> TRUE, message |-> message], 0)>>

\* The frame of a handler that has returned. via tells which way: "unknown"
\* (line 633), "except" (line 640) or "run_cass" (a result of run_cass); name
\* is kept for the first two, out and ran (what run_cass did) for the last.
ReturnedCall(via, name, out, ran, payload) ==
    [pc |-> "returned", via |-> via, name |-> name, out |-> out, ran |-> ran,
     payload |-> payload]

NoOut == Exited(0, <<>>, <<>>)
NoRun == [raised |-> FALSE, value |-> [error |-> FALSE]]

\* The handler after run_cass has ended with out: its result wrapped, or the
\* exception run_cass raised caught at line 640 (or raised to the transport).
AfterRunCass(out) ==
    LET ran == run_cass(out) IN
    IF ~ran.raised
    THEN ReturnedCall("run_cass", "", out, ran, ResultPayload(ran.value))
    ELSE IF DispatchCaught("run_cass")
    THEN ReturnedCall("except", "", out, ran, ErrorPayload(out.message))
    ELSE [pc |-> "raised"]

\* ------------------------------------------------------------- tool-call steps
\* A client's tool call reaches the server; its handler waits for the event
\* loop.
ReceiveCall ==
    /\ inbox < MaxToolCalls
    /\ inbox' = inbox + 1
    /\ UNCHANGED <<tool_call, tool_child>>
    /\ UNCHANGED indexerVars

\* The frame of the handler of req when it returns or enters run_cass.
Dispatch(req) ==
    IF req.name \notin Catalog
    THEN ReturnedCall("unknown", req.name, NoOut, NoRun,
                      ResultPayload([error |-> TRUE, message |-> "Unknown tool"]))
    ELSE IF KeyError(req.name, req.arguments) # ""
    THEN IF DispatchCaught("KeyError")
         THEN ReturnedCall("except", req.name, NoOut, NoRun,
                           ErrorPayload(KeyError(req.name, req.arguments)))
         ELSE [pc |-> "raised"]
    ELSE [pc |-> "run_cass", name |-> req.name, arguments |-> req.arguments,
          args |-> ToolArgs(req.name, req.arguments),
          timeout |-> ToolTimeout(req.name)]

\* The event loop starts the handler of a waiting call (lines 551-633); req
\* is the call's name and argument map.
\* call_tool is a coroutine without an await and run_cass blocks in
\* subprocess.run, so the loop runs one handler from start to return before
\* it starts the next. The handler returns at once for an unknown name or a
\* missing subscripted parameter, and otherwise enters run_cass.
call_tool ==
    /\ inbox > 0
    /\ tool_call.pc = "idle"
    /\ inbox' = inbox - 1
    /\ \E req \in Requests : tool_call' = Dispatch(req)
    /\ UNCHANGED tool_child
    /\ UNCHANGED indexerVars

\* Lines 277-283, subprocess.run's Popen: the child starts, or launching it
\* raises OSError (err is its message, "" for none). From here on the frame
\* keeps the timeout alone of the call's inputs.
Popen(err) ==
    /\ tool_call.pc = "run_cass"
    /\ IF err = ""
       THEN /\ tool_call' = [pc |-> "child", timeout |-> tool_call.timeout]
            /\ tool_child' = TRUE
       ELSE /\ tool_call' = AfterRunCass(OSError(err))
            /\ tool_child' = tool_child
    /\ UNCHANGED inbox
    /\ UNCHANGED indexerVars

\* The child exits by itself within the timeout with some exit code, stdout
\* and stderr; run_cass returns its result.
ToolChildExits ==
    /\ tool_call.pc = "child"
    /\ tool_child' = FALSE
    /\ \E code \in 0..MaxExit, stdout \in Stdouts, stderr \in Stderrs :
         tool_call' = AfterRunCass(Exited(code, stdout, stderr))
    /\ UNCHANGED inbox
    /\ UNCHANGED indexerVars

\* A timeout that leaves the child running.
TimeoutExpired_NoKill ==
    /\ tool_call.pc = "child"
    /\ tool_child' = tool_child
    /\ tool_call' = AfterRunCass(TimedOut(tool_call.timeout))
    /\ UNCHANGED inbox
    /\ UNCHANGED indexerVars

\* The timeout passes first: subprocess.run kills its child, reaps it and
\* raises TimeoutExpired, which line 299 turns into a result.
TimeoutExpired ==
    /\ tool_call.pc = "child"
    /\ tool_child' = FALSE
    /\ tool_call' = AfterRunCass(TimedOut(tool_call.timeout))
    /\ UNCHANGED inbox
    /\ UNCHANGED indexerVars

\* The transport sends the payload; the event loop is free again.
Respond ==
    /\ tool_call.pc = "returned"
    /\ tool_call' = IdleCall
    /\ UNCHANGED <<inbox, tool_child>>
    /\ UNCHANGED indexerVars

\* The server while tool calls arrive: the supervisor has been started in
\* watch mode (start(True, False)), its watch child and monitor are alive and
\* a manual index pass (trigger_index) is in flight.
ToolInit ==
    /\ is_running = TRUE
    /\ stop_event = FALSE
    /\ watch_process = Handle
    /\ handle_alive = TRUE
    /\ orphans = 0
    /\ periodic_thread = None
    /\ last_index_time = None
    /\ index_count = 0
    /\ monitors = [pc \in MonPcs |-> IF pc = "loop" THEN 1 ELSE 0]
    /\ pthreads = [s \in PSlots |-> Dead]
    /\ mthreads = [s \in MSlots |-> IF s = 1 THEN NewPass ELSE Dead]
    /\ caller = [pc |-> "idle", op |-> "none", use_watch |-> FALSE, tmp |-> 0,
                 ret |-> "started", outcome |-> "none", calls |-> 1]
    /\ passes = [started |-> 1, returned |-> 0, ended |-> 0]
    /\ crashed = "no"
    /\ inbox = 0
    /\ tool_call = IdleCall
    /\ tool_child = FALSE

ToolNext ==
    \/ ReceiveCall
    \/ call_tool
    \/ \E err \in OSErrors \cup {""} : Popen(err)
    \/ ToolChildExits
    \/ TimeoutExpired
    \/ Respond

ToolSpec == ToolInit /\ [][ToolNext]_vars

\* ------------------------------------------------------------- claims on tool calls
\* C13: run_cass never raises: for every argument list and every way its
\* child ends (zero exit, non-zero exit, timeout, binary missing or not
\* executable) it returns a result value, and an invocation error other than
\* a non-zero exit or a timeout yields a Failure carrying the exception's
\* message.
C13_RunCassNeverRaises ==
    tool_call.pc = "returned" =>
        /\ ~tool_call.ran.raised
        /\ tool_call.out.kind = "oserror" =>
               /\ tool_call.via = "run_cass"
               /\ tool_call.ran.value =
                      [error |-> TRUE, message |-> tool_call.out.message]

\* run_cass has returned after the launch of its child failed.
C13_Witness ==
    /\ tool_call.pc = "returned"
    /\ tool_call.via = "run_cass"
    /\ tool_call.out.kind = "oserror"
    /\ tool_call.out.message = "Permission denied"

\* C14: for every tool name, also one outside the catalog, and every argument
\* map, also one missing a required parameter, call_tool returns exactly one
\* text payload and raises nothing to the transport; for an unknown name or
\* an exception during dispatch the payload is a structured error (error
\* true, a message), and no subprocess is invoked for an unknown name.
C14_CallToolAlwaysOnePayload ==
    /\ [](tool_call.pc # "raised")
    /\ [](tool_call.pc = "returned" =>
             /\ Len(tool_call.payload) = 1
             /\ tool_call.payload[1].type = "text"
             /\ tool_call.via \in {"unknown", "except"} =>
                    /\ tool_call.payload[1].text.value.error = TRUE
                    /\ "message" \in DOMAIN tool_call.payload[1].text.value)
    /\ [][(/\ tool_call.pc # "returned"
           /\ tool_call'.pc = "returned"
           /\ tool_call'.via = "unknown")
              => (tool_call.pc = "idle" /\ ~tool_child /\ ~tool_child')]_vars

\* The handler of a cass_expand call without its line has returned the
\* KeyError as a structured error.
C14_Witness ==
    /\ tool_call.pc = "returned"
    /\ tool_call.via = "except"
    /\ tool_call.name = "cass_expand"
    /\ tool_call.payload[1].text.value = [error |-> TRUE, message |-> "line"]

\* The number a decimal numeral stands for.
DigitValue(c) == CHOOSE d \in 0..9 : Digits[d + 1] = c
RECURSIVE NumeralValue(_)
NumeralValue(cs) ==
    IF cs = <<>> THEN 0
    ELSE NumeralValue(SubSeq(cs, 1, Len(cs) - 1)) * 10 + DigitValue(cs[Len(cs)])

\* The tokens that follow the flag in an argument list.
Following(args, flag) ==
    {args[i + 1] : i \in {j \in 1..(Len(args) - 1) : args[j] = Word(flag)}}

\* The handler is in run_cass for a call of the tool.
InRunCass(name) == tool_call.pc = "run_cass" /\ tool_call.name = name

\* C15: for every cass_search call whose limit is greater than 100 the
\* argument list handed to run_cass has "--limit" followed by "100" and never
\* the larger value; a limit between 1 and 100 is forwarded unchanged.
C15_SearchLimitClamped ==
    (/\ InRunCass("cass_search")
     /\ tool_call.arguments.limit.given
     /\ tool_call.arguments.limit.v >= 1) =>
        LET limit == tool_call.arguments.limit.v
            sent == Following(tool_call.args, "--limit") IN
        /\ Cardinality(sent) = 1
        /\ \A t \in sent :
             /\ t.word = ""
             /\ limit > 100 => t.num = <<"1", "0", "0">>
             /\ limit <= 100 => NumeralValue(t.num) = limit

\* A cass_search call with the largest limit is in run_cass.
C15_Witness ==
    /\ InRunCass("cass_search")
    /\ tool_call.arguments.limit.given
    /\ tool_call.arguments.limit.v = MaxLimit
    /\ MaxLimit > 100

\* How many times the word occurs in an argument list.
Occurrences(args, w) == Cardinality({i \in 1..Len(args) : args[i] = Word(w)})

\* C16: when a call supplies both days and today, one of the two takes
\* precedence: exactly one of the flags --today and --days is forwarded, for
\* cass_search and for cass_timeline.
C16_DaysTodayPrecedence ==
    \A name \in {"cass_search", "cass_timeline"} :
       (/\ InRunCass(name)
        /\ TruthyNum(tool_call.arguments.days)
        /\ TruthyBool(tool_call.arguments.today)) =>
           Occurrences(tool_call.args, "--today")
               + Occurrences(tool_call.args, "--days") = 1

\* C17: tool calls do not queue behind one another: a tool call issued while
\* another call's child process is running can start its own handler, and so
\* its own child, without waiting for the first to finish.
C17_ToolCallsDoNotQueue == (inbox > 0 /\ tool_child) => ENABLED call_tool

\* The text is made of whitespace alone.
AllWhitespace(s) == \A i \in 1..Len(s) : s[i] \in Whitespace

\* t is s without the whitespace at its two ends.
IsTrimOf(t, s) ==
    /\ t = <<>> \/ (t[1] \notin Whitespace /\ t[Len(t)] \notin Whitespace)
    /\ \E i \in 0..Len(s) :
         /\ i + Len(t) <= Len(s)
         /\ AllWhitespace(SubSeq(s, 1, i))
         /\ SubSeq(s, i + 1, i + Len(t)) = t
         /\ AllWhitespace(SubSeq(s, i + Len(t) + 1, Len(s)))

\* run_cass has returned the result of a child that exited with the code.
ExitedWith(codes) ==
    /\ tool_call.pc = "returned"
    /\ tool_call.via = "run_cass"
    /\ tool_call.out.kind = "exited"
    /\ tool_call.out.code \in codes

\* C18: when the child of a tool call exits with a non-zero code, the result
\* is a Failure with error true, the exit code, the trimmed stderr and the
\* trimmed stdout, and stdout is not parsed as JSON.
C18_NonZeroExitIsFailure ==
    ExitedWith(1..MaxExit) =>
        LET r == tool_call.ran.value IN
        /\ DOMAIN r = {"error", "exit_code", "stderr", "stdout"}
        /\ r.error = TRUE
        /\ r.exit_code = tool_call.out.code
        /\ IsTrimOf(r.stderr, tool_call.out.stderr)
        /\ IsTrimOf(r.stdout, tool_call.out.stdout)
        /\ tool_call.payload = ResultPayload(r)

\* A child has exited with code 2, an stderr with a blank before its text and
\* an stdout that is valid JSON.
C18_Witness ==
    /\ ExitedWith({2})
    /\ tool_call.out.stderr = <<" ", "x">>
    /\ tool_call.out.stdout = <<"[", "7", "]">>
    /\ tool_call.ran.value.stderr = <<"x">>

\* The number written with k sevens.
RECURSIVE Sevens(_)
Sevens(k) == IF k = 0 THEN 0 ELSE Sevens(k - 1) * 10 + 7

\* The JSON values with arrays nested up to a depth: the numbers a stdout can
\* hold, the empty array, and arrays of one such value.
RECURSIVE JValues(_)
JValues(depth) ==
    {JNum(Sevens(k)) : k \in 1..MaxLen} \cup {JArr(<<>>)}
    \cup (IF depth = 0 THEN {} ELSE {JArr(<<v>>) : v \in JValues(depth - 1)})

\* The keys of the objects a stdout holds, and the values under them.
Keys == {<<"e", "r", "r", "o", "r">>, <<"x">>}
Scalars == {JTrue, JNum(7)} \cup {JStr(k) : k \in Keys}
ObjectValues ==
    Scalars \cup {JObj(<<>>, <<>>)} \cup {JObj(k, <<v>>) : k \in Keys, v \in Scalars}

\* The JSON values whose text fits a stdout.
StdoutValues == JValues(MaxLen \div 2) \cup ObjectValues

\* The compact JSON text of a value (the encoder's side of the round trip).
RECURSIVE Encode(_)
Encode(v) ==
    CASE v.t = "num" -> str(v.n)
      [] v.t = "str" -> <<"\"">> \o v.s \o <<"\"">>
      [] v.t = "true" -> <<"t", "r", "u", "e">>
      [] v.t = "arr" ->
             <<"[">> \o (IF v.items = <<>> THEN <<>> ELSE Encode(v.items[1])) \o <<"]">>
      [] v.t = "obj" ->
             <<"{">>
             \o (IF v.items = <<>> THEN <<>>
                 ELSE Encode(JStr(v.s)) \o <<":">> \o Encode(v.items[1]))
             \o <<"}">>

\* Position i of the text lies inside a string: an odd number of quotes
\* comes before it.
InString(s, i) == Cardinality({j \in 1..(i - 1) : s[j] = "\""}) % 2 = 1

\* The text from a position on without the whitespace between its tokens;
\* inside tells whether the position lies in a string.
RECURSIVE Squeeze(_, _)
Squeeze(s, inside) ==
    IF s = <<>> THEN <<>>
    ELSE (IF Head(s) \in Whitespace /\ ~inside THEN <<>> ELSE <<Head(s)>>)
         \o Squeeze(Tail(s), IF Head(s) = "\"" THEN ~inside ELSE inside)

\* The text without the whitespace between its tokens.
Compact(s) == Squeeze(s, FALSE)

\* Whitespace stands between two characters of one number or literal.
SplitsNumber(s) ==
    \E i \in 1..Len(s), j \in 1..Len(s) :
       /\ i + 1 < j
       /\ {s[i], s[j]} \subseteq {"7", "t", "r", "u", "e"}
       /\ ~InString(s, i)
       /\ AllWhitespace(SubSeq(s, i + 1, j - 1))

\* s is a JSON text of the value v: v's encoding with whitespace added
\* around its tokens.
IsJSONTextOf(s, v) == Compact(s) = Encode(v) /\ ~SplitsNumber(s)

C20_TimeoutEndsOnlyItsChild ==
    /\ []((tool_call.pc = "returned" /\ tool_call.out.kind = "timeout") =>
             /\ tool_call.via = "run_cass"
             /\ tool_call.ran.value =
                    [error |-> TRUE,
                     message |-> TimeoutMessage(tool_call.out.timeout)]
             /\ tool_call.payload = ResultPayload(tool_call.ran.value)
             /\ ~tool_child)
    /\ [][(/\ tool_call.pc = "child"
           /\ tool_call'.pc = "returned"
           /\ tool_call'.out.kind = "timeout")
              => UNCHANGED <<watch_process, handle_alive, orphans, monitors,
                             pthreads, mthreads, passes>>]_vars

\* A cass_index call has timed out after 300 s while the supervisor's watch
\* child and an index pass are running.
C20_Witness ==
    /\ tool_call.pc = "returned"
    /\ tool_call.out.kind = "timeout"
    /\ tool_call.out.timeout = IndexTimeout
    /\ handle_alive
    /\ \E s \in MSlots : mthreads[s].pc = "p_run"

\* ------------------------------------------------------------- further claims
\* The index passes in flight, by the thread that runs them.
ManualInFlight == {s \in MSlots : mthreads[s].pc \in PassPcs}
PeriodicInFlight == {s \in PSlots : pthreads[s].pc \in PassPcs}

C22_NoPeriodicPassAfterStop ==
    [][StopReturned => \A s \in PSlots : ~PeriodicLaunch(s)]_vars


\* C23: every "--limit" value forwarded to cass lies between 1 and 100, for
\* cass_search and for cass_context alike, whatever limit the client sent.
C23_ForwardedLimitInRange ==
    \A name \in {"cass_search", "cass_context"} :
        InRunCass(name) =>
            \A t \in Following(tool_call.args, "--limit") :
                /\ t.num # <<>>
                /\ NumeralValue(t.num) \in 1..LimitCap


\* The passes whose subprocess has returned and whose increment of line 205
\* is still to come.
Uncounted ==
    Cardinality({s \in PSlots : pthreads[s].pc \in {"p_load", "p_store"}})
    + Cardinality({s \in MSlots : mthreads[s].pc \in {"p_load", "p_store"}})
    + (IF caller.pc \in {"p_load", "p_store"} THEN 1 ELSE 0)

\* C24: under any interleaving of concurrent index passes, index_count is the
\* number of passes whose subprocess has returned (those that have not yet
\* reached their increment aside): no increment is lost.
C24_NoLostIncrement == index_count + Uncounted = passes.returned


\* The periodic index loops that are alive.
PeriodicLoops == {s \in PSlots : pthreads[s].pc # "dead"}

\* C25: while the server process is up, at most one periodic index loop is
\* alive, also after a stop() followed by a start() while the previous loop
\* is inside an index pass; and at most one watch-monitor loop exists.
C25_AtMostOneLoop ==
    Up => /\ Cardinality(PeriodicLoops) <= 1
          /\ NumMonitors(monitors) <= 1


\* The result carries error == true: a Failure built by run_cass, or a parsed
\* object whose member "error" is true (the dict json.loads returned).
CarriesError(r) ==
    \/ "error" \in DOMAIN r /\ r.error = TRUE
    \/ /\ "t" \in DOMAIN r
       /\ r = JObj(<<"e", "r", "r", "o", "r">>, <<JTrue>>)

\* The invocation failed: a non-zero exit, a timeout or a launch error.
InvocationFailed(out) == out.kind # "exited" \/ out.code # 0

\* C26: the result of every invocation carries error == true if and only if
\* the invocation failed; a zero-exit invocation never yields a result that
\* reads as a Failure, whatever its stdout contains.
C26_ErrorTagIffFailed ==
    (tool_call.pc = "returned" /\ tool_call.via = "run_cass") =>
        (CarriesError(tool_call.ran.value) <=> InvocationFailed(tool_call.out))

====
